---- MODULE Spec2Model ----
(***************************************************************************)
(* Model of the VisionaryAI consultation orchestrator: the React component *)
(* App (session state and handlers), the Gemini service functions          *)
(* generateEyewearImage, chatWithStylist and detectIntent, and the         *)
(* asynchronous file hand-off of ImageUploader.                            *)
(*                                                                         *)
(* Texts, prompts and data URLs are real strings; String.prototype         *)
(* operations (toLowerCase, includes, trim, split) are operators computed  *)
(* character by character.  A handler that awaits the gateway is split at  *)
(* its single await: the part before it is one action, the continuation   *)
(* (success or failure, then the finally block) is another.  Timestamps    *)
(* (Date.now()) are not recorded: no handler reads them.                   *)
(***************************************************************************)
EXTENDS Integers, Sequences, FiniteSets, TLC

\* ------------------------------------------------------------------ bounds
MaxHistory == 4      \* a submission is accepted while the transcript is shorter
MaxInFlight == 2     \* gateway calls that may be outstanding at once
MaxPicks == 1        \* reference files being read by ImageUploader at once

\* ------------------------------------------------------- JavaScript values
Null == "<null>"
Undefined == "<undefined>"

\* a string, null or undefined used as a condition
Truthy(v) == v # Null /\ v # Undefined /\ v # ""

\* ---------------------------------------------------------- string helpers
CharAt(s, i) == SubSeq(s, i, i)

\* the upper-case letters and their lower-case forms
LowerOf ==
  [c \in {"A", "B", "C", "D", "E", "F", "G", "H", "I", "J", "K", "L", "M",
          "N", "O", "P", "Q", "R", "S", "T", "U", "V", "W", "X", "Y", "Z"} |->
     CASE c = "A" -> "a" [] c = "B" -> "b" [] c = "C" -> "c" [] c = "D" -> "d"
       [] c = "E" -> "e" [] c = "F" -> "f" [] c = "G" -> "g" [] c = "H" -> "h"
       [] c = "I" -> "i" [] c = "J" -> "j" [] c = "K" -> "k" [] c = "L" -> "l"
       [] c = "M" -> "m" [] c = "N" -> "n" [] c = "O" -> "o" [] c = "P" -> "p"
       [] c = "Q" -> "q" [] c = "R" -> "r" [] c = "S" -> "s" [] c = "T" -> "t"
       [] c = "U" -> "u" [] c = "V" -> "v" [] c = "W" -> "w" [] c = "X" -> "x"
       [] c = "Y" -> "y" [] c = "Z" -> "z"]

LowerChar(c) == IF c \in DOMAIN LowerOf THEN LowerOf[c] ELSE c

RECURSIVE LowerFrom(_, _)
LowerFrom(s, i) ==
  IF i > Len(s) THEN "" ELSE LowerChar(CharAt(s, i)) \o LowerFrom(s, i + 1)

\* String.prototype.toLowerCase
toLowerCase(s) == LowerFrom(s, 1)

\* String.prototype.includes
includes(s, k) ==
  \E i \in 1..(Len(s) - Len(k) + 1) : SubSeq(s, i, i + Len(k) - 1) = k

IsSpace(c) == c \in {" ", "\t", "\n"}

RECURSIVE trimStart(_)
trimStart(s) ==
  IF s # "" /\ IsSpace(CharAt(s, 1)) THEN trimStart(Tail(s)) ELSE s

RECURSIVE trimEnd(_)
trimEnd(s) ==
  IF s # "" /\ IsSpace(CharAt(s, Len(s)))
    THEN trimEnd(SubSeq(s, 1, Len(s) - 1)) ELSE s

\* String.prototype.trim
trim(s) == trimEnd(trimStart(s))

\* the position of the first sep in s at or after i, or 0
RECURSIVE IndexFrom(_, _, _)
IndexFrom(s, sep, i) ==
  IF i > Len(s) THEN 0
  ELSE IF CharAt(s, i) = sep THEN i
  ELSE IndexFrom(s, sep, i + 1)

\* String.prototype.split for a one-character separator
RECURSIVE split(_, _)
split(s, sep) ==
  LET i == IndexFrom(s, sep, 1)
  IN IF i = 0 THEN <<s>>
     ELSE <<SubSeq(s, 1, i - 1)>> \o split(SubSeq(s, i + 1, Len(s)), sep)

\* dataUrl.split(',')[1]
cleanBase64(dataUrl) ==
  LET pieces == split(dataUrl, ",")
  IN IF Len(pieces) >= 2 THEN pieces[2] ELSE Undefined

\* ------------------------------------------------------------ types.ts
USER == "user"
MODEL == "model"

\* ------------------------------------------------- services/geminiService
ImageModel == "gemini-2.5-flash-image"
ChatModel == "gemini-3-pro-preview"

fileToGenerativePart(base64Data, mimeType) ==
  [inlineData |-> [data |-> base64Data, mimeType |-> mimeType]]

TextPart(t) == [text |-> t]

IsImagePart(part) == "inlineData" \in DOMAIN part
IsTextPart(part) == "text" \in DOMAIN part

ReferencePrompt(prompt) ==
  "Using the first image as the base and the second image as a reference for the eyewear style, "
    \o prompt
    \o ". Ensure the glasses fit the face naturally with correct perspective, lighting, and shadows. High quality, photorealistic."

PlainPrompt(prompt) ==
  "Edit the image to: " \o prompt
    \o ". Ensure photorealistic results, correct lighting, and natural fit on the face. High resolution."

\* generateEyewearImage up to its await: the request handed to generateContent
EyewearRequest(baseImageBase64, prompt, referenceImageBase64) ==
  LET withRef == Truthy(referenceImageBase64)
      parts == <<fileToGenerativePart(baseImageBase64, "image/jpeg")>>
                 \o (IF withRef
                       THEN <<fileToGenerativePart(referenceImageBase64, "image/jpeg")>>
                       ELSE <<>>)
                 \o <<TextPart(IF withRef THEN ReferencePrompt(prompt)
                                          ELSE PlainPrompt(prompt))>>
  IN [model |-> ImageModel,
      parts |-> parts,
      config |-> [responseModalities |-> <<"IMAGE">>]]

NoImageError == "No image generated from the model."

\* a service that returns the image as a data URL instead of its raw payload
EyewearResultAsDataUrl(response) ==
  IF response.kind = "reject"
    THEN [ok |-> FALSE, error |-> response.error]
    ELSE IF response.parts = <<>> \/ ~IsImagePart(response.parts[1])
           THEN [ok |-> FALSE, error |-> NoImageError]
           ELSE [ok |-> TRUE,
                 value |-> "data:image/jpeg;base64," \o response.parts[1].inlineData.data]

\* generateEyewearImage after its await: the returned data, or a throw;
\* response.parts is response.candidates?.[0]?.content?.parts, empty when absent
EyewearResult(response) ==
  IF response.kind = "reject"
    THEN [ok |-> FALSE, error |-> response.error]
    ELSE IF response.parts = <<>> \/ ~IsImagePart(response.parts[1])
           THEN [ok |-> FALSE, error |-> NoImageError]
           ELSE [ok |-> TRUE, value |-> response.parts[1].inlineData.data]

ContextCaption ==
  "This is the current image of the user wearing glasses. Focus on the glasses style, shape, color, and material."

SystemInstruction ==
  "You are an expert optical stylist and optometrist assistant. You help users find the perfect glasses. When asked to find similar products or shop, analyze the visual details of the eyewear in the image provided (frame shape, rim thickness, color, material) and use Google Search to find real, purchasable products that are very similar. Provide direct shopping links. Be concise, helpful, and fashion-forward."

\* chatWithStylist up to its await; the history parameter is accepted and
\* appears nowhere in the request
ChatRequest(message, currentImageBase64, history) ==
  LET parts == (IF Truthy(currentImageBase64)
                  THEN <<fileToGenerativePart(currentImageBase64, "image/jpeg"),
                         TextPart(ContextCaption)>>
                  ELSE <<>>)
               \o <<TextPart(message)>>
  IN [model |-> ChatModel,
      parts |-> parts,
      config |-> [tools |-> <<"googleSearch">>,
                  systemInstruction |-> SystemInstruction]]

FallbackText == "I couldn't generate a text response."

\* obj?.[f]
Field(obj, f) == IF f \in DOMAIN obj THEN obj[f] ELSE Undefined

\* chunk.web?.uri && chunk.web?.title
ChunkKept(chunk) ==
  /\ "web" \in DOMAIN chunk
  /\ Truthy(Field(chunk.web, "uri"))
  /\ Truthy(Field(chunk.web, "title"))

\* a filter that looks at the uri only
RECURSIVE GroundingUrlsByUri(_)
GroundingUrlsByUri(chunks) ==
  IF chunks = <<>> THEN <<>>
  ELSE (IF "web" \in DOMAIN Head(chunks) /\ Truthy(Field(Head(chunks).web, "uri"))
          THEN <<[title |-> Field(Head(chunks).web, "title"),
                  uri |-> Head(chunks).web.uri]>>
          ELSE <<>>)
       \o GroundingUrlsByUri(Tail(chunks))

RECURSIVE GroundingUrls(_)
GroundingUrls(chunks) ==
  IF chunks = <<>> THEN <<>>
  ELSE (IF ChunkKept(Head(chunks))
          THEN <<[title |-> Head(chunks).web.title, uri |-> Head(chunks).web.uri]>>
          ELSE <<>>)
       \o GroundingUrls(Tail(chunks))

\* a service that hands the response text on as it is
ChatResultRawText(response) ==
  IF response.kind = "reject"
    THEN [ok |-> FALSE, error |-> response.error]
    ELSE [ok |-> TRUE,
          text |-> response.text,
          groundingUrls |-> GroundingUrls(response.groundingChunks)]

\* chatWithStylist after its await
ChatResult(response) ==
  IF response.kind = "reject"
    THEN [ok |-> FALSE, error |-> response.error]
    ELSE [ok |-> TRUE,
          text |-> IF Truthy(response.text) THEN response.text ELSE FallbackText,
          groundingUrls |-> GroundingUrls(response.groundingChunks)]

visualKeywords ==
  <<"change", "make", "add", "remove", "wear", "try", "color", "style", "shape",
    "rim", "lens", "thinner", "thicker", "bigger", "smaller", "metal", "plastic",
    "gold", "silver", "black", "blue", "red", "green", "tortoise", "transparent",
    "generate", "create", "visualize">>

\* a classifier whose default route is the edit
detectIntentDefaultEdit(message) ==
  LET lowerMsg == toLowerCase(message)
  IN IF \E k \in {"buy", "link", "where", "cost", "price", "brand", "shop",
                  "find", "similar"} : includes(lowerMsg, k)
       THEN "CHAT"
     ELSE "EDIT_IMAGE"

\* a classifier that tests the visual keywords before the commerce ones
detectIntentVisualFirst(message) ==
  LET lowerMsg == toLowerCase(message)
  IN IF \E i \in 1..Len(visualKeywords) : includes(lowerMsg, visualKeywords[i])
       THEN "EDIT_IMAGE"
     ELSE "CHAT"

detectIntent(message) ==
  LET lowerMsg == toLowerCase(message)
  IN IF \/ includes(lowerMsg, "buy") \/ includes(lowerMsg, "link")
        \/ includes(lowerMsg, "where") \/ includes(lowerMsg, "cost")
        \/ includes(lowerMsg, "price") \/ includes(lowerMsg, "brand")
        \/ includes(lowerMsg, "shop") \/ includes(lowerMsg, "find")
        \/ includes(lowerMsg, "similar")
       THEN "CHAT"
     ELSE IF \E i \in 1..Len(visualKeywords) : includes(lowerMsg, visualKeywords[i])
       THEN "EDIT_IMAGE"
     ELSE "CHAT"

\* ------------------------------------------------------------------- App
VARIABLES
  userImage,        \* useState: the user's photo (data URL) or null
  generatedImage,   \* useState: the latest synthesized look (data URL) or null
  referenceImage,   \* useState: the uploaded reference frames (data URL) or null
  chatHistory,      \* useState: the transcript, a sequence of ChatMessage
  inputMessage,     \* useState: the text in the input box
  generationState,  \* useState: [isGenerating, progress]
  inflight,         \* handleSendMessage calls suspended at their await, oldest first
  picks,            \* ImageUploader reads of a reference file still in progress
  delivered         \* the settlement of generateContent handed to the continuation
                    \* that resumed last: which service awaited it, and the response

vars == <<userImage, generatedImage, referenceImage, chatHistory, inputMessage,
          generationState, inflight, picks, delivered>>

PRESET_STYLES ==
  <<[id |-> "aviator", label |-> "Aviator", prompt |-> "wear classic gold rimmed aviator sunglasses"],
    [id |-> "wayfarer", label |-> "Classic Wayfarer", prompt |-> "wear black wayfarer style sunglasses"],
    [id |-> "cat-eye", label |-> "Cat Eye", prompt |-> "wear vintage red cat-eye glasses"],
    [id |-> "round", label |-> "Intellectual", prompt |-> "wear thin round wire-rimmed glasses"],
    [id |-> "rimless", label |-> "Minimalist", prompt |-> "wear modern rimless rectangular glasses"]>>

GreetingText ==
  "Great! I've got your photo. Choose a style below, upload a reference image of glasses you like, or just tell me what to try on!"
ReferenceUploadText == "I've uploaded a picture of some glasses. Can I try them on?"
NeedPhotoText == "Please upload a photo of yourself first!"
ReferenceReplyText ==
  "I've placed the glasses from your reference image onto your face. How do they fit?"
EditReplyText == "Here is the updated look based on your request. Use the slider to compare!"
GenericErrorText == "Sorry, something went wrong. Please try again."
ShopLookText ==
  "Find online shopping links for glasses that look exactly like the ones in this photo."

Idle == [isGenerating |-> FALSE, progress |-> ""]
GeneratingLook ==
  [isGenerating |-> TRUE, progress |-> "Generating your new look... (using Gemini 2.5 Flash Image)"]
Consulting ==
  [isGenerating |-> TRUE, progress |-> "Consulting the optical expert... (using Gemini 3 Pro)"]

\* --------------------------------------------------- inputs of the session
\* what ImageUploader hands up: a canvas JPEG, or the file's own data URL
UserPhotos == {"data:image/jpeg;base64,u1", "data:image/png;base64,u2"}
ReferencePhotos == {"data:image/jpeg;base64,r1"}

\* what the user may type
Utterances ==
  {"", "  ", "make the frames red", "where can I buy these"}

\* the message of the error generateContent rejects with
GatewayError == "429 RESOURCE_EXHAUSTED: quota exceeded"

\* what generateContent may answer to an image request
ImageResponses ==
  {[kind |-> "reject", error |-> GatewayError],
   [kind |-> "ok", parts |-> <<>>],
   [kind |-> "ok", parts |-> <<TextPart("I cannot edit this image.")>>],
   [kind |-> "ok", parts |-> <<[inlineData |-> [data |-> "g1"]]>>],
   [kind |-> "ok", parts |-> <<[inlineData |-> [data |-> "g2"]]>>]}

GoodChunk == [web |-> [uri |-> "https://shop.example/a", title |-> "Frame A"]]
OtherChunk == [web |-> [uri |-> "https://shop.example/b", title |-> "Frame B"]]
NoTitleChunk == [web |-> [uri |-> "https://shop.example/c"]]
EmptyUriChunk == [web |-> [uri |-> "", title |-> "Frame D"]]
NoWebChunk == [retrievedContext |-> "doc"]

MixedChunks == <<NoTitleChunk, OtherChunk, EmptyUriChunk, GoodChunk, NoWebChunk>>

\* what generateContent may answer to a chat request
ChatResponses ==
  {[kind |-> "reject", error |-> GatewayError],
   [kind |-> "ok", text |-> "", groundingChunks |-> <<>>],
   [kind |-> "ok", text |-> "These frames suit you.", groundingChunks |-> MixedChunks]}

\* the Quick Try-On buttons the user clicks in a session (the five buttons
\* differ in their label only)
StyleButtons == {1}

StyleText(k) == "Can I try on " \o PRESET_STYLES[k].label \o " glasses?"

\* the texts the handler is called with when it is driven directly: the
\* typed ones, every button's text, and texts that mix or hide keywords
ProbeTexts ==
  Utterances
    \cup {"hello", "find similar gold frames", "Where is the red one", "trim the beard",
          "Make them BLUE"}
    \cup {StyleText(k) : k \in 1..Len(PRESET_STYLES)}
    \cup {ShopLookText, ReferenceUploadText}

\* no generateContent call has settled yet
NothingDelivered == [service |-> "none"]

\* ------------------------------------------------------------------- Init
Init ==
  /\ userImage = Null
  /\ generatedImage = Null
  /\ referenceImage = Null
  /\ chatHistory = <<>>
  /\ inputMessage = ""
  /\ generationState = Idle
  /\ inflight = <<>>
  /\ picks = <<>>
  /\ delivered = NothingDelivered

\* ------------------------------------------------------------ helpers
\* a call that stays in flight after it has settled: it is issued again
RemoveAtRetry(seq, i) == seq

RemoveAt(seq, i) == SubSeq(seq, 1, i - 1) \o SubSeq(seq, i + 1, Len(seq))

\* the state values captured by the handlers of the current render
Closure ==
  [userImage |-> userImage, generatedImage |-> generatedImage,
   referenceImage |-> referenceImage, chatHistory |-> chatHistory]

\* the part of that closure which a reference upload reads: its override
\* image is a non-empty data URL, so the call takes the EDIT_IMAGE branch and
\* never evaluates generatedImage or chatHistory (evaluating a field that is
\* not in the record is an error, not a default)
UploadClosure == [userImage |-> userImage, referenceImage |-> referenceImage]

\* a || b on strings, null and undefined
Or(a, b) == IF Truthy(a) THEN a ELSE b

WithinBounds == Len(chatHistory) < MaxHistory /\ Len(inflight) < MaxInFlight

\* ------------------------------------------------------- handleSendMessage
\* a guard that compares the text as typed, without trimming it
SendIgnoredUntrimmed(text, overrideRefImage) ==
  text = "" /\ ~Truthy(overrideRefImage)

\* line 214: nothing to send
SendIgnored(text, overrideRefImage) == trim(text) = "" /\ ~Truthy(overrideRefImage)

\* line 228: overrideRefImage || referenceImage
CurrentRefImage(overrideRefImage, cl) == Or(overrideRefImage, cl.referenceImage)

\* a router that lets the text decide even when a reference image is there
IntentByText(currentRefImage, text) == detectIntent(text)

\* line 233: a reference image forces the edit route, else the text decides
Intent(currentRefImage, text) ==
  IF Truthy(currentRefImage) THEN "EDIT_IMAGE" ELSE detectIntent(text)

\* line 238: the image every edit starts from
RawUserImage(cl) == cleanBase64(cl.userImage)

\* a handler that never hands the reference image to the synthesis
RawRefImageDropped(currentRefImage) == Undefined

\* line 239
RawRefImage(currentRefImage) ==
  IF Truthy(currentRefImage) THEN cleanBase64(currentRefImage) ELSE Undefined

\* a consultation that is always about the original photo
CurrentContextImageBase(cl) == cleanBase64(cl.userImage)

\* line 257: the image a consultation is about
CurrentContextImage(cl) ==
  IF Truthy(cl.generatedImage) THEN cleanBase64(cl.generatedImage)
                               ELSE cleanBase64(cl.userImage)

\* the call suspended at its await: its parameters, its locals, and the request
\* that generateContent was given
Frame(text, overrideRefImage, cl) ==
  LET currentRefImage == CurrentRefImage(overrideRefImage, cl)
      intent == Intent(currentRefImage, text)
  IN [text |-> text,
      overrideRefImage |-> overrideRefImage,
      currentRefImage |-> currentRefImage,
      intent |-> intent,
      request |-> IF intent = "EDIT_IMAGE"
                    THEN EyewearRequest(RawUserImage(cl), text, RawRefImage(currentRefImage))
                    ELSE ChatRequest(text, CurrentContextImage(cl), cl.chatHistory)]

\* the synchronous part of handleSendMessage, run with the closure cl of the
\* render that created it; it ends at the return of line 214 or 222, or at
\* the await inside generateEyewearImage or chatWithStylist.  The return of
\* line 214 leaves inputMessage to the caller: nothing is set.
handleSendMessage(text, overrideRefImage, cl) ==
  IF SendIgnored(text, overrideRefImage)
    THEN UNCHANGED <<chatHistory, generationState, inflight>>
  ELSE IF ~Truthy(cl.userImage)
    THEN /\ chatHistory' = chatHistory
                \o <<[role |-> USER, text |-> text],
                     [role |-> MODEL, text |-> NeedPhotoText]>>
         /\ inputMessage' = ""
         /\ UNCHANGED <<generationState, inflight>>
  ELSE
    LET frame == Frame(text, overrideRefImage, cl)
    IN /\ chatHistory' = Append(chatHistory, [role |-> USER, text |-> text])
       /\ inputMessage' = ""
       /\ generationState' = IF frame.intent = "EDIT_IMAGE" THEN GeneratingLook
                                                            ELSE Consulting
       /\ inflight' = Append(inflight, frame)

\* a catch block that forgets the error flag
ErrorTurnUnflagged == [role |-> MODEL, text |-> GenericErrorText]

\* line 269-271: the catch block's turn
ErrorTurn == [role |-> MODEL, text |-> GenericErrorText, isError |-> TRUE]

\* a handler without the finally block: the status is left as it is
SettledStateKept == generationState

\* line 272-274: the finally block
SettledState == Idle

\* the continuation of handleSendMessage after generateEyewearImage settles
ImageCallReturns(i, response) ==
  /\ i \in 1..Len(inflight)
  /\ inflight[i].intent = "EDIT_IMAGE"
  /\ response \in ImageResponses
  /\ LET p == inflight[i]
         r == EyewearResult(response)
     IN IF r.ok
          THEN /\ generatedImage' = "data:image/jpeg;base64," \o r.value
               /\ chatHistory' = Append(chatHistory,
                    [role |-> MODEL,
                     text |-> IF Truthy(p.currentRefImage) THEN ReferenceReplyText
                                                           ELSE EditReplyText])
          ELSE /\ chatHistory' = Append(chatHistory, ErrorTurn)
               /\ UNCHANGED generatedImage
  /\ generationState' = SettledState
  /\ inflight' = RemoveAt(inflight, i)
  /\ delivered' = [service |-> "generateEyewearImage", response |-> response]
  /\ UNCHANGED <<userImage, referenceImage, inputMessage, picks>>

\* a continuation whose catch block only logs: a failed consultation gets no turn
ChatCallReturnsSilently(i, response) ==
  /\ i \in 1..Len(inflight)
  /\ inflight[i].intent = "CHAT"
  /\ LET r == ChatResult(response)
     IN IF r.ok
          THEN chatHistory' = Append(chatHistory,
                 [role |-> MODEL, text |-> r.text, groundingUrls |-> r.groundingUrls])
          ELSE chatHistory' = chatHistory
  /\ generationState' = SettledState
  /\ inflight' = RemoveAt(inflight, i)
  /\ delivered' = [service |-> "chatWithStylist", response |-> response]
  /\ UNCHANGED <<userImage, generatedImage, referenceImage, inputMessage, picks>>

\* a consultation that discards the generated look when it answers
ChatCallReturnsResettingLook(i, response) ==
  /\ i \in 1..Len(inflight)
  /\ inflight[i].intent = "CHAT"
  /\ LET r == ChatResult(response)
     IN IF r.ok
          THEN chatHistory' = Append(chatHistory,
                 [role |-> MODEL, text |-> r.text, groundingUrls |-> r.groundingUrls])
          ELSE chatHistory' = Append(chatHistory, ErrorTurn)
  /\ generationState' = SettledState
  /\ inflight' = RemoveAt(inflight, i)
  /\ delivered' = [service |-> "chatWithStylist", response |-> response]
  /\ generatedImage' = Null
  /\ UNCHANGED <<userImage, referenceImage, inputMessage, picks>>

\* the continuation of handleSendMessage after chatWithStylist settles
ChatCallReturns(i, response) ==
  /\ i \in 1..Len(inflight)
  /\ inflight[i].intent = "CHAT"
  /\ LET r == ChatResult(response)
     IN IF r.ok
          THEN chatHistory' = Append(chatHistory,
                 [role |-> MODEL, text |-> r.text, groundingUrls |-> r.groundingUrls])
          ELSE chatHistory' = Append(chatHistory, ErrorTurn)
  /\ generationState' = SettledState
  /\ inflight' = RemoveAt(inflight, i)
  /\ delivered' = [service |-> "chatWithStylist", response |-> response]
  /\ UNCHANGED <<userImage, generatedImage, referenceImage, inputMessage, picks>>

\* ------------------------------------------------------------ UI events
\* the user types t (onChange: setInputMessage) and presses Enter
\* (handleKeyDown); the input box is disabled while generating.  A blank text
\* returns before setInputMessage('') and stays in the box.
PressEnter(t) ==
  /\ t \in Utterances
  /\ ~generationState.isGenerating
  /\ WithinBounds
  /\ handleSendMessage(t, Null, Closure)
  /\ SendIgnored(t, Null) => inputMessage' = t
  /\ UNCHANGED <<userImage, generatedImage, referenceImage, picks, delivered>>

\* the user types t and clicks the send button, disabled on a blank text or
\* while generating
ClickSend(t) ==
  /\ t \in Utterances
  /\ trim(t) # ""
  /\ ~generationState.isGenerating
  /\ WithinBounds
  /\ handleSendMessage(t, Null, Closure)
  /\ UNCHANGED <<userImage, generatedImage, referenceImage, picks, delivered>>

\* handleStyleSelect: a Quick Try-On button
StyleSelect(k) ==
  /\ k \in StyleButtons
  /\ Truthy(userImage)
  /\ ~generationState.isGenerating
  /\ WithinBounds
  /\ handleSendMessage(StyleText(k), Null, Closure)
  /\ UNCHANGED <<userImage, generatedImage, referenceImage, picks, delivered>>

\* handleShopLook: the Shop Similar Styles button
ShopLook ==
  /\ Truthy(userImage)
  /\ Truthy(generatedImage)
  /\ ~generationState.isGenerating
  /\ WithinBounds
  /\ handleSendMessage(ShopLookText, Null, Closure)
  /\ UNCHANGED <<userImage, generatedImage, referenceImage, picks, delivered>>

\* handleUserImageUpload, called by the photo uploader shown while there is no photo
UserImageUpload(base64) ==
  /\ ~Truthy(userImage)
  /\ base64 \in UserPhotos
  /\ userImage' = base64
  /\ generatedImage' = Null
  /\ chatHistory' = <<[role |-> MODEL, text |-> GreetingText]>>
  /\ UNCHANGED <<referenceImage, inputMessage, generationState, inflight, picks,
                 delivered>>

Orphaned(ps) == [j \in 1..Len(ps) |-> [ps[j] EXCEPT !.mounted = FALSE]]

\* the remove button on the user's photo
RemovePhoto ==
  /\ Truthy(userImage)
  /\ userImage' = Null
  /\ generatedImage' = Null
  /\ picks' = Orphaned(picks)
  /\ UNCHANGED <<referenceImage, chatHistory, inputMessage, generationState, inflight,
                 delivered>>

\* the remove button on the reference preview
ClearReference ==
  /\ Truthy(userImage)
  /\ Truthy(referenceImage)
  /\ referenceImage' = Null
  /\ UNCHANGED <<userImage, generatedImage, chatHistory, inputMessage,
                 generationState, inflight, picks, delivered>>

\* ImageUploader.handleFileChange of the reference uploader, up to its await:
\* the read starts and keeps the onImageSelected of the current render
PickReferenceFile ==
  /\ Truthy(userImage)
  /\ ~Truthy(referenceImage)
  /\ \A j \in 1..Len(picks) : ~picks[j].mounted
  /\ Len(picks) < MaxPicks
  /\ picks' = Append(picks, [closure |-> UploadClosure, mounted |-> TRUE])
  /\ UNCHANGED <<userImage, generatedImage, referenceImage, chatHistory,
                 inputMessage, generationState, inflight, delivered>>

\* ImageUploader.handleFileChange after its await: handleReferenceImageUpload
\* of the render that started the read
ReferenceImageUpload(i, base64) ==
  /\ i \in 1..Len(picks)
  /\ base64 \in ReferencePhotos
  /\ WithinBounds
  /\ referenceImage' = base64
  /\ handleSendMessage(ReferenceUploadText, base64, picks[i].closure)
  /\ picks' = Orphaned(RemoveAt(picks, i))
  /\ UNCHANGED <<userImage, generatedImage, delivered>>

\* the gateway call of some suspended turn settles
GatewaySettles ==
  \/ \E i \in 1..MaxInFlight, r \in ImageResponses : ImageCallReturns(i, r)
  \/ \E i \in 1..MaxInFlight, r \in ChatResponses : ChatCallReturns(i, r)

Next ==
  \/ \E t \in Utterances : PressEnter(t)
  \/ \E t \in Utterances : ClickSend(t)
  \/ \E k \in StyleButtons : StyleSelect(k)
  \/ ShopLook
  \/ \E b \in UserPhotos : UserImageUpload(b)
  \/ RemovePhoto
  \/ ClearReference
  \/ PickReferenceFile
  \/ \E i \in 1..MaxPicks, b \in ReferencePhotos : ReferenceImageUpload(i, b)
  \/ GatewaySettles

\* the session as the user interface drives it
Spec == Init /\ [][Next]_vars

\* every gateway call settles: generateContent resolves or rejects
FairSpec == Spec /\ WF_vars(GatewaySettles)

\* ------------------------------------------------- the handler, driven directly
\* handleSendMessage called with any text and any reference image, one turn
\* at a time, on a session whose closure is current
DirectCall(t, r) ==
  /\ t \in ProbeTexts
  /\ r \in {Null} \cup ReferencePhotos
  /\ inflight = <<>>
  /\ WithinBounds
  /\ handleSendMessage(t, r, Closure)
  /\ SendIgnored(t, r) => UNCHANGED inputMessage
  /\ UNCHANGED <<userImage, generatedImage, referenceImage, picks, delivered>>

HandlerNext ==
  \/ \E b \in UserPhotos : UserImageUpload(b)
  \/ \E t \in ProbeTexts, r \in {Null} \cup ReferencePhotos : DirectCall(t, r)
  \/ GatewaySettles

HandlerSpec == Init /\ [][HandlerNext]_vars

\* the same, with every gateway call settling
FairHandlerSpec == HandlerSpec /\ WF_vars(GatewaySettles)

\* ------------------------------------------ the normalizer, driven directly
\* the longest raw citation list handed to the normalizer
MaxChunks == 3

ChunkKinds == {GoodChunk, OtherChunk, NoTitleChunk, EmptyUriChunk, NoWebChunk}

\* response.candidates?.[0]?.groundingMetadata?.groundingChunks || []
RawChunkLists == UNION {[1..n -> ChunkKinds] : n \in 0..MaxChunks}

\* what generateContent may resolve with: response.text is a text, empty or
\* undefined
RawAnswers ==
  {[kind |-> "ok", text |-> t, groundingChunks |-> c] :
     t \in {"These frames suit you.", "", Undefined}, c \in RawChunkLists}

NormalizerClosure ==
  [userImage |-> "data:image/jpeg;base64,u1", generatedImage |-> Null,
   referenceImage |-> Null,
   chatHistory |-> <<[role |-> MODEL, text |-> GreetingText]>>]

\* a session whose consultation is suspended at chatWithStylist
NormalizerInit ==
  /\ userImage = NormalizerClosure.userImage
  /\ generatedImage = Null
  /\ referenceImage = Null
  /\ chatHistory = Append(NormalizerClosure.chatHistory,
                          [role |-> USER, text |-> ShopLookText])
  /\ inputMessage = ""
  /\ generationState = Consulting
  /\ inflight = <<Frame(ShopLookText, Null, NormalizerClosure)>>
  /\ picks = <<>>
  /\ delivered = NothingDelivered

\* generateContent resolves with any raw answer
Normalizes == \E r \in RawAnswers : ChatCallReturns(1, r)

NormalizerSpec == NormalizerInit /\ [][Normalizes]_vars

\* ================================================================ properties
LastTurn == chatHistory[Len(chatHistory)]

IsErrorTurn(m) == "isError" \in DOMAIN m /\ m.isError

\* C1: at most one turn pipeline is in flight at any time: no gateway call
\* is started while the call of an earlier turn is outstanding.
C1_SinglePipelineInFlight == Len(inflight) <= 1

\* C2: a pipeline that set the generating status eventually clears it,
\* whether its gateway call succeeds or fails: generating leads to idle.
C2_GeneratingEventuallyCleared ==
  generationState.isGenerating ~> ~generationState.isGenerating

\* a failed pipeline has finished and the session is idle again
C2_Witness ==
  /\ chatHistory # <<>>
  /\ IsErrorTurn(LastTurn)
  /\ inflight = <<>>
  /\ ~generationState.isGenerating

\* the keyword sets of the classifier's contract
CommerceKeywords ==
  {"buy", "link", "where", "cost", "price", "brand", "shop", "find", "similar"}

VisualKeywords ==
  {"change", "make", "add", "remove", "wear", "try", "color", "style", "shape",
   "rim", "lens", "thinner", "thicker", "bigger", "smaller", "metal", "plastic",
   "gold", "silver", "black", "blue", "red", "green", "tortoise", "transparent",
   "generate", "create", "visualize"}

HasKeyword(text, keywords) == \E k \in keywords : includes(toLowerCase(text), k)

Frames == {inflight[i] : i \in 1..Len(inflight)}

\* C3: a turn that supplies an explicit reference image is routed EDIT_IMAGE
\* whatever its text is.
C3_ExplicitReferenceForcesEdit ==
  \A f \in Frames : Truthy(f.overrideRefImage) => f.intent = "EDIT_IMAGE"

\* a turn with an explicit reference image whose text alone would be routed
\* to the consultation
C3_Witness ==
  \E f \in Frames :
    /\ Truthy(f.overrideRefImage)
    /\ HasKeyword(f.text, CommerceKeywords)
    /\ f.intent = "EDIT_IMAGE"

\* C4: a text with a commerce keyword and a visual keyword, classified with
\* no reference image, is routed CONSULT.
C4_CommercePrecedence ==
  \A f \in Frames :
    (/\ ~Truthy(f.currentRefImage)
     /\ HasKeyword(f.text, CommerceKeywords)
     /\ HasKeyword(f.text, VisualKeywords))
    => f.intent = "CHAT"

\* a turn without reference whose text holds both kinds of keyword
C4_Witness ==
  \E f \in Frames :
    /\ ~Truthy(f.currentRefImage)
    /\ HasKeyword(f.text, CommerceKeywords)
    /\ HasKeyword(f.text, VisualKeywords)
    /\ f.intent = "CHAT"

\* a step that suspends a new turn at its gateway call, and that turn
Submits == Len(inflight') = Len(inflight) + 1
Submitted == inflight'[Len(inflight')]

ImagesOf(request) == SelectSeq(request.parts, IsImagePart)

\* data is the payload of the data URL dataUrl
IsPayloadOf(data, dataUrl) ==
  \E mime \in {"image/jpeg", "image/png"} :
    dataUrl = "data:" \o mime \o ";base64," \o data

\* the present visual state: the generated look if there is one, else the photo
PresentLook == IF Truthy(generatedImage) THEN generatedImage ELSE userImage

\* C5: a turn submitted without a newly supplied reference image composes its
\* request without a reference image and is routed by its text alone.
C5_ReferenceIsTransient ==
  \A f \in Frames :
    ~Truthy(f.overrideRefImage)
      => /\ f.intent = detectIntent(f.text)
         /\ Len(ImagesOf(f.request)) = 1

\* C6: with a photo and a generated look, the message "where can I buy these"
\* is routed CONSULT, and its request attaches the generated look and has
\* web-search grounding enabled.
C6_ShopQuestionConsultsCurrentLook ==
  [][(/\ Truthy(userImage)
      /\ Truthy(generatedImage)
      /\ Submits
      /\ Submitted.text = "where can I buy these")
     => /\ Submitted.intent = "CHAT"
        /\ Len(ImagesOf(Submitted.request)) = 1
        /\ IsPayloadOf(ImagesOf(Submitted.request)[1].inlineData.data,
                       generatedImage)
        /\ "tools" \in DOMAIN Submitted.request.config
        /\ \E k \in 1..Len(Submitted.request.config.tools) :
             Submitted.request.config.tools[k] = "googleSearch"]_vars

\* C7: the first image of an EDIT_IMAGE request is the generated look when
\* there is one, and the photo otherwise.
C7_EditBuildsOnPresentLook ==
  [][(Submits /\ Truthy(userImage) /\ Submitted.intent = "EDIT_IMAGE")
     => IsPayloadOf(Submitted.request.parts[1].inlineData.data,
                    PresentLook)]_vars

\* some text of the request quotes the turn m
Quotes(request, m) ==
  \/ \E k \in 1..Len(request.parts) :
       IsTextPart(request.parts[k]) /\ includes(request.parts[k].text, m.text)
  \/ includes(request.config.systemInstruction, m.text)

\* C8: a CONSULT request carries every turn of the conversation recorded
\* before it.
C8_ConsultCarriesHistory ==
  [][(Submits /\ Submitted.intent = "CHAT")
     => \A j \in 1..Len(chatHistory) :
          Quotes(Submitted.request, chatHistory[j])]_vars

\* C9: a CONSULT request attaches exactly one image: the generated look when
\* there is one, and the photo otherwise.
C9_ConsultAttachesPresentLook ==
  [][(Submits /\ Submitted.intent = "CHAT")
     => /\ Len(ImagesOf(Submitted.request)) = 1
        /\ IsPayloadOf(ImagesOf(Submitted.request)[1].inlineData.data,
                       PresentLook)]_vars

\* a consultation about a generated look is waiting for its answer
C9_Witness ==
  \E f \in Frames :
    /\ f.intent = "CHAT"
    /\ Len(ImagesOf(f.request)) = 1
    /\ Truthy(generatedImage)
    /\ IsPayloadOf(ImagesOf(f.request)[1].inlineData.data, generatedImage)

\* C10: while there is no photo, no step issues a gateway request or sets the
\* generating status.
C10_NoRequestWithoutBaseImage ==
  [][~Truthy(userImage)
     => /\ ~Submits
        /\ generationState'.isGenerating => generationState.isGenerating]_vars

\* the transcript before a step is a prefix of the transcript after it
Extends ==
  /\ Len(chatHistory') >= Len(chatHistory)
  /\ SubSeq(chatHistory', 1, Len(chatHistory)) = chatHistory

\* the turns a step appends
NewTurns == SubSeq(chatHistory', Len(chatHistory) + 1, Len(chatHistory'))

\* a step that records a submission of the user
UserSubmits == Extends /\ NewTurns # <<>> /\ NewTurns[1].role = USER

\* C11: a turn submitted while there is no photo is answered at once by
\* exactly one MODEL turn that is an error turn and asks for a photo.
C11_MissingPhotoIsErrorTurn ==
  [][(UserSubmits /\ ~Truthy(userImage))
     => /\ Len(NewTurns) = 2
        /\ NewTurns[2].role = MODEL
        /\ IsErrorTurn(NewTurns[2])
        /\ includes(toLowerCase(NewTurns[2].text), "photo")]_vars

\* a step in which the gateway call of a suspended turn settles and the
\* turn's continuation runs; delivered' is what the call settled with
Settles == Len(inflight') < Len(inflight)

\* the image bytes a synthesis response holds, if it holds any
HoldsImage(response) ==
  /\ response.kind = "ok"
  /\ response.parts # <<>>
  /\ IsImagePart(response.parts[1])

SynthesisSucceeds ==
  /\ Settles
  /\ delivered'.service = "generateEyewearImage"
  /\ HoldsImage(delivered'.response)

\* C12: the step that completes an EDIT_IMAGE pipeline with a synthesized
\* image makes that image the generated look and appends exactly one MODEL
\* turn, a reply; neither that step nor the step that started the pipeline
\* changes the photo.
C12_SuccessfulEditSetsCurrentImage ==
  [][/\ Submits => userImage' = userImage
     /\ SynthesisSucceeds
          => /\ IsPayloadOf(delivered'.response.parts[1].inlineData.data,
                            generatedImage')
             /\ Extends
             /\ Len(NewTurns) = 1
             /\ NewTurns[1].role = MODEL
             /\ ~IsErrorTurn(NewTurns[1])
             /\ userImage' = userImage]_vars

\* a synthesis has just succeeded: its image is the generated look and its
\* reply ends the transcript
C12_Witness ==
  /\ delivered.service = "generateEyewearImage"
  /\ HoldsImage(delivered.response)
  /\ IsPayloadOf(delivered.response.parts[1].inlineData.data, generatedImage)
  /\ Truthy(userImage)
  /\ chatHistory # <<>>
  /\ LastTurn.text = EditReplyText

\* the call settled with a failure: generateContent rejected, or the
\* synthesis answered without an image
HoldsFailure(d) ==
  \/ d.response.kind = "reject"
  \/ d.service = "generateEyewearImage" /\ ~HoldsImage(d.response)

\* the message of the error behind a failure
UnderlyingError(d) ==
  IF d.response.kind = "reject" THEN d.response.error
  ELSE "No image generated from the model."

GatewayFails == Settles /\ HoldsFailure(delivered')

\* C13: the step in which a gateway call fails, synthesis or consultation,
\* leaves photo, generated look and reference image as they were and appends
\* exactly one MODEL turn: an error turn with the fixed generic text, which
\* does not quote the underlying error.
C13_FailureKeepsLookState ==
  [][GatewayFails
     => /\ userImage' = userImage
        /\ generatedImage' = generatedImage
        /\ referenceImage' = referenceImage
        /\ Extends
        /\ Len(NewTurns) = 1
        /\ NewTurns[1].role = MODEL
        /\ IsErrorTurn(NewTurns[1])
        /\ NewTurns[1].text = "Sorry, something went wrong. Please try again."
        /\ ~includes(NewTurns[1].text, UnderlyingError(delivered'))]_vars

\* a consultation about a generated look has just been rejected: the look
\* is still there and the transcript ends with the error turn
C13_Witness ==
  /\ delivered.service = "chatWithStylist"
  /\ HoldsFailure(delivered)
  /\ Truthy(userImage)
  /\ Truthy(generatedImage)
  /\ chatHistory # <<>>
  /\ IsErrorTurn(LastTurn)

\* C14: in every step the transcript before the step is a prefix of the
\* transcript after it.
C14_TranscriptAppendOnly == [][Extends]_vars

\* a step that removes the photo
PhotoRemoved == Truthy(userImage) /\ ~Truthy(userImage')

\* all three images are absent after the step
LookStateGone ==
  ~Truthy(userImage') /\ ~Truthy(generatedImage') /\ ~Truthy(referenceImage')

\* C15: removing the photo leaves no photo, no generated look and no
\* reference image; and only a removal of the photo empties the look state.
C15_RemovalResetsLookState ==
  [][/\ PhotoRemoved => LookStateGone
     /\ (LookStateGone
         /\ (Truthy(userImage) \/ Truthy(generatedImage) \/ Truthy(referenceImage)))
        => PhotoRemoved]_vars

\* the requests in flight after the step are those before it, less one
OneRequestGone ==
  \E i \in 1..Len(inflight) :
    inflight' = SubSeq(inflight, 1, i - 1) \o SubSeq(inflight, i + 1, Len(inflight))

\* C16: a step issues at most one gateway request, and only a step that
\* records a submission of the user issues one; the step that handles the
\* outcome of a call, failure included, takes that call out of flight and
\* issues none.
C16_AtMostOneRequestPerTurn ==
  [][/\ Len(inflight') > Len(inflight)
          => /\ UserSubmits
             /\ Len(NewTurns) = 1
             /\ inflight' = Append(inflight, Submitted)
     /\ ~UserSubmits => (inflight' = inflight \/ OneRequestGone)
     /\ (Extends /\ NewTurns # <<>> /\ IsErrorTurn(NewTurns[1]))
          => OneRequestGone]_vars

\* a synthesis has failed and nothing is in flight: the call was not repeated
C16_Witness ==
  /\ delivered.service = "generateEyewearImage"
  /\ HoldsFailure(delivered)
  /\ inflight = <<>>
  /\ chatHistory # <<>>
  /\ IsErrorTurn(LastTurn)
  /\ Truthy(userImage)

\* what one step may do to the transcript: a submission appends its USER
\* turn (and, when it is answered without a gateway call, the answer); the
\* settling of a call appends one MODEL turn; nothing else adds a turn to a
\* session whose photo stays
AdvancesOnce ==
  /\ Submits => UserSubmits
  /\ UserSubmits
       => \/ Submits /\ Len(NewTurns) = 1
          \/ /\ inflight' = inflight
             /\ Len(NewTurns) = 2
             /\ NewTurns[2].role = MODEL
  /\ Settles
       => /\ OneRequestGone
          /\ Extends
          /\ Len(NewTurns) = 1
          /\ NewTurns[1].role = MODEL
  /\ (~UserSubmits /\ ~Settles /\ userImage' = userImage)
       => chatHistory' = chatHistory

\* C17: an accepted submission appends exactly one USER turn; the settling of
\* its gateway call, with an answer or a failure, appends exactly one MODEL
\* turn; and every call in flight does settle.
C17_SubmissionAdvancesOnce ==
  /\ [][AdvancesOnce]_vars
  /\ (inflight # <<>>) ~> (inflight = <<>>)

\* a turn has been answered: the transcript ends with the USER turn and the
\* one MODEL turn of a consultation, and nothing is in flight
C17_Witness ==
  /\ inflight = <<>>
  /\ delivered.service = "chatWithStylist"
  /\ Len(chatHistory) >= 3
  /\ chatHistory[Len(chatHistory) - 1].role = USER
  /\ LastTurn.role = MODEL
  /\ chatHistory[Len(chatHistory) - 2].role = MODEL

\* a raw citation with a non-empty title and a non-empty uri
HasTitleAndUri(chunk) ==
  /\ "web" \in DOMAIN chunk
  /\ "title" \in DOMAIN chunk.web
  /\ "uri" \in DOMAIN chunk.web
  /\ chunk.web.title # ""
  /\ chunk.web.uri # ""

\* the order-preserving sub-sequence of the raw citations that have both
KeptInOrder(raw) ==
  LET kept == SelectSeq(raw, HasTitleAndUri)
  IN [j \in 1..Len(kept) |-> [title |-> kept[j].web.title, uri |-> kept[j].web.uri]]

\* C18: the citations of a consultation's MODEL turn are exactly the raw
\* citations that have a non-empty title and a non-empty uri, in the order
\* in which the backend returned them.
C18_CitationsFilteredInOrder ==
  (delivered.service = "chatWithStylist" /\ delivered.response.kind = "ok")
    => /\ chatHistory # <<>>
       /\ "groundingUrls" \in DOMAIN LastTurn
       /\ LastTurn.groundingUrls = KeptInOrder(delivered.response.groundingChunks)

\* a raw list with a citation to drop between two to keep, in an order that
\* is not the alphabetical one
C18_Witness ==
  /\ delivered.service = "chatWithStylist"
  /\ delivered.response.kind = "ok"
  /\ delivered.response.groundingChunks = <<OtherChunk, NoTitleChunk, GoodChunk>>
  /\ LastTurn.groundingUrls = <<OtherChunk.web, GoodChunk.web>>

\* the consultation answered without failing, and with an empty text
EmptyAnswer(d) ==
  /\ d.service = "chatWithStylist"
  /\ d.response.kind = "ok"
  /\ d.response.text = ""

\* C19: when a consultation is answered with an empty text, the step appends
\* one MODEL turn that is not an error turn and holds the canned fallback
\* phrase; and no step appends a MODEL turn with an empty text.
C19_EmptyAnswerGetsFallback ==
  [][/\ (Settles /\ EmptyAnswer(delivered'))
          => /\ Extends
             /\ Len(NewTurns) = 1
             /\ NewTurns[1].role = MODEL
             /\ ~IsErrorTurn(NewTurns[1])
             /\ NewTurns[1].text = "I couldn't generate a text response."
     /\ \A j \in 1..Len(chatHistory') :
          (chatHistory'[j].role = MODEL /\ (j > Len(chatHistory) \/ ~Extends))
            => chatHistory'[j].text # ""]_vars

\* an empty answer has just been replaced by the fallback phrase
C19_Witness ==
  /\ EmptyAnswer(delivered)
  /\ chatHistory # <<>>
  /\ LastTurn.role = MODEL
  /\ LastTurn.text = FallbackText
  /\ ~IsErrorTurn(LastTurn)

\* the texts of a request
TextsOf(request) == SelectSeq(request.parts, IsTextPart)

\* C20: a turn classified with no reference image, whose text holds no
\* commerce keyword, is routed EDIT_IMAGE exactly when its lower-cased text
\* holds a visual keyword, and CONSULT otherwise; "make the frames red" is
\* routed EDIT_IMAGE with the photo as its only image and an instruction
\* that quotes the text and does not speak of a reference.
C20_VisualKeywordsRouteEdit ==
  \A f \in Frames :
    ~Truthy(f.currentRefImage)
      => /\ ~HasKeyword(f.text, CommerceKeywords)
              => /\ HasKeyword(f.text, VisualKeywords) => f.intent = "EDIT_IMAGE"
                 /\ ~HasKeyword(f.text, VisualKeywords) => f.intent = "CHAT"
         /\ f.text = "make the frames red"
              => /\ f.intent = "EDIT_IMAGE"
                 /\ Len(ImagesOf(f.request)) = 1
                 /\ IsPayloadOf(ImagesOf(f.request)[1].inlineData.data, userImage)
                 /\ Len(TextsOf(f.request)) = 1
                 /\ includes(TextsOf(f.request)[1].text, f.text)
                 /\ ~includes(TextsOf(f.request)[1].text, "reference")
                 /\ ~includes(TextsOf(f.request)[1].text, "second image")

\* "make the frames red" is in flight as an edit of the photo alone
C20_Witness ==
  \E f \in Frames :
    /\ f.text = "make the frames red"
    /\ ~Truthy(f.currentRefImage)
    /\ f.intent = "EDIT_IMAGE"
    /\ Len(ImagesOf(f.request)) = 1

\* the instruction of a synthesis request speaks of a reference image
UsesReferenceWording(request) ==
  /\ Len(TextsOf(request)) = 1
  /\ includes(TextsOf(request)[1].text, "the second image as a reference")

\* the synthesis request has a second image
AttachesReference(request) == Len(ImagesOf(request)) = 2

\* C21: in every EDIT_IMAGE turn the request has a second image exactly when
\* its instruction uses the reference wording, and, when the synthesis
\* succeeds, exactly when the MODEL turn appended is the one that
\* acknowledges the reference try-on; a turn that supplies a reference image
\* has all three.
C21_ReferenceIndicatorsAgree ==
  [][/\ (Submits /\ Submitted.intent = "EDIT_IMAGE")
          => /\ Len(ImagesOf(Submitted.request)) \in {1, 2}
             /\ AttachesReference(Submitted.request)
                  <=> UsesReferenceWording(Submitted.request)
             /\ Truthy(Submitted.overrideRefImage)
                  => AttachesReference(Submitted.request)
     /\ SynthesisSucceeds
          => \E i \in 1..Len(inflight) :
               /\ inflight' = SubSeq(inflight, 1, i - 1)
                                \o SubSeq(inflight, i + 1, Len(inflight))
               /\ inflight[i].intent = "EDIT_IMAGE"
               /\ Len(NewTurns) = 1
               /\ AttachesReference(inflight[i].request)
                    <=> NewTurns[1].text =
                          "I've placed the glasses from your reference image onto your face. How do they fit?"
               /\ ~AttachesReference(inflight[i].request)
                    <=> NewTurns[1].text =
                          "Here is the updated look based on your request. Use the slider to compare!"]_vars

\* a reference try-on has just succeeded and been acknowledged
C21_Witness ==
  /\ delivered.service = "generateEyewearImage"
  /\ HoldsImage(delivered.response)
  /\ Truthy(referenceImage)
  /\ chatHistory # <<>>
  /\ LastTurn.text = ReferenceReplyText

\* the step in which a consultation call settles, answered or failed
ConsultSettles == Settles /\ delivered'.service = "chatWithStylist"

LookStateKept ==
  /\ userImage' = userImage
  /\ generatedImage' = generatedImage
  /\ referenceImage' = referenceImage

\* C22: the step that submits a CONSULT turn and the step that appends its
\* MODEL turn, answer or error, leave photo, generated look and reference
\* image as they were; the only step that puts an image into the generated
\* look is a synthesis that succeeds.
C22_ConsultOnlyReadsLookState ==
  [][/\ (Submits /\ Submitted.intent = "CHAT") => LookStateKept
     /\ ConsultSettles
          => /\ LookStateKept
             /\ Extends
             /\ Len(NewTurns) = 1
             /\ NewTurns[1].role = MODEL
     /\ (generatedImage' # generatedImage /\ Truthy(generatedImage'))
          => SynthesisSucceeds]_vars

\* a consultation about a generated look has just been answered
C22_Witness ==
  /\ delivered.service = "chatWithStylist"
  /\ delivered.response.kind = "ok"
  /\ Truthy(generatedImage)
  /\ chatHistory # <<>>
  /\ LastTurn.role = MODEL
  /\ ~IsErrorTurn(LastTurn)

\* C23: in every reachable state a generated look is present only if a
\* photo is present; a synthesis that completes after the photo was removed
\* leaves no generated look without a photo.
C23_GeneratedLookNeedsPhoto == Truthy(generatedImage) => Truthy(userImage)

\* C24: in every reachable state with a gateway call outstanding the
\* generating status is set; the completion of one pipeline does not clear it
\* while another call is in flight.
C24_OutstandingCallMeansGenerating ==
  inflight # <<>> => generationState.isGenerating

\* the first image of the request of the frame that the step settles is the
\* payload of the photo the session holds after the step
SettledFrameIsOfCurrentPhoto ==
  \E i \in 1..Len(inflight) :
    /\ inflight' = SubSeq(inflight, 1, i - 1)
                     \o SubSeq(inflight, i + 1, Len(inflight))
    /\ inflight[i].intent = "EDIT_IMAGE"
    /\ Truthy(userImage')
    /\ IsPayloadOf(ImagesOf(inflight[i].request)[1].inlineData.data, userImage')

\* C25: the generated look always derives from the photo the session holds:
\* a synthesis result that arrives while a photo is present is applied only
\* if its request was built from that photo, and a change of photo leaves no
\* generated look behind.
C25_GeneratedLookIsOfCurrentPhoto ==
  [][/\ (SynthesisSucceeds /\ Truthy(userImage')) => SettledFrameIsOfCurrentPhoto
     /\ userImage' # userImage => ~Truthy(generatedImage')]_vars

\* C26: in the transcript every USER turn that is not the last turn is
\* immediately followed by a MODEL turn: two USER turns are never adjacent.
C26_UserTurnFollowedByModelTurn ==
  \A k \in 1..(Len(chatHistory) - 1) :
    chatHistory[k].role = USER => chatHistory[k + 1].role = MODEL

\* a text that is empty or made of whitespace only
IsBlank(text) == trim(text) = ""

\* the step in which a whitespace text was typed and submitted: handleKeyDown
\* returns from handleSendMessage before setInputMessage(''), so the text
\* stays in the box
BlankTextSubmitted ==
  /\ inputMessage' # inputMessage
  /\ inputMessage' # ""
  /\ IsBlank(inputMessage')

\* C27: a submission with an empty or whitespace text and no reference image
\* is ignored: no USER turn with such a text is ever appended, no gateway
\* call is ever started for one, and the step of the submission leaves
\* transcript, calls in flight, photo, generated look, reference image and
\* generating status as they were.
C27_BlankSubmissionIgnored ==
  [][/\ Extends
          => \A k \in 1..Len(NewTurns) :
               NewTurns[k].role = USER => ~IsBlank(NewTurns[k].text)
     /\ Submits
          => ~(IsBlank(Submitted.text) /\ ~Truthy(Submitted.overrideRefImage))
     /\ BlankTextSubmitted
          => UNCHANGED <<chatHistory, inflight, userImage, generatedImage,
                         referenceImage, generationState>>]_vars

\* a whitespace text was submitted in a session with a photo and a generated
\* look and is still in the input box
C27_Witness ==
  /\ inputMessage = "  "
  /\ Truthy(userImage)
  /\ Truthy(generatedImage)
  /\ inflight = <<>>
  /\ ~generationState.isGenerating

====
